---------------------------- MODULE Spec2Model ----------------------------
(***************************************************************************)
(* A model of tetris.cpp: the Piece and Board classes (occupancy grid,     *)
(* relocation, rotation, row collapse with gravity, spawn and game over)   *)
(* and the main loop that drives Board::update.                            *)
(*                                                                         *)
(* A Piece* is modelled by the index of the piece in the vector `pieces`   *)
(* (the address of element i), 0 standing for nullptr.  Rendering calls    *)
(* (draw, drawTile, SDL_RenderPresent) change no program state and are     *)
(* left out.                                                               *)
(***************************************************************************)
EXTENDS Integers, Sequences, FiniteSets, TLC

\* ------------------------------------------------------------ constants

NUM_ROWS == 20
NUM_COLS == 12
MAX_HEIGHT == 4
MAX_WIDTH == 4
NUM_DEFAULT_PIECES == 5
NUM_DEFAULT_COLORS == 3

\* Bound of the exploration: update calls made after the initial state.
MaxUpdates == 6

\* Bound of the gravity-only session: DOWN ticks after construction.
MaxTicks == 20

Direction == {"UP", "DOWN", "LEFT", "RIGHT"}

Cells == (0 .. NUM_ROWS - 1) \X (0 .. NUM_COLS - 1)

\* DEFAULT_PIECES[k]: the set of <<subRow, subCol>> whose TileGridType entry is 1.
DEFAULT_PIECES ==
    [k \in 0 .. NUM_DEFAULT_PIECES - 1 |->
        CASE k = 0 -> {<<0, 0>>, <<0, 1>>, <<0, 2>>, <<0, 3>>}
          [] k = 1 -> {<<0, 1>>, <<1, 0>>, <<1, 1>>, <<1, 2>>}
          [] k = 2 -> {<<0, 0>>, <<0, 1>>, <<1, 0>>, <<2, 0>>}
          [] k = 3 -> {<<0, 0>>, <<0, 1>>, <<1, 1>>, <<2, 1>>}
          [] k = 4 -> {<<0, 0>>, <<0, 1>>, <<1, 0>>, <<1, 1>>}]

\* The value-initialised pieceGrid: every cell nullptr.
EmptyGrid == [cell \in Cells |-> 0]

\* ------------------------------------------------------------ Piece

\* Piece::Piece(): a catalog footprint chosen by the random draw k, the next
\* round-robin colour, anchor (0,0) from the member initialisers.
NewPiece(k, colorIndex) ==
    [tileGrid |-> DEFAULT_PIECES[k], color |-> colorIndex, row |-> 0, col |-> 0]

\* The board cells of footprint tg anchored at (row, col).
CellsAt(row, col, tg) == {<<row + t[1], col + t[2]>> : t \in tg}

\* The occupied cells of a piece.
OccupiedCells(p) == CellsAt(p.row, p.col, p.tileGrid)

\* InBounds with the floor test off by one (row >= NUM_ROWS - 1).
InBoundsShortFloor(cell) ==
    ~(cell[1] < 0 \/ cell[1] >= NUM_ROWS - 1 \/ cell[2] < 0 \/ cell[2] >= NUM_COLS)

InBounds(cell) ==
    ~(cell[1] < 0 \/ cell[1] >= NUM_ROWS \/ cell[2] < 0 \/ cell[2] >= NUM_COLS)

\* The validation loop without the test for a cell owned by another piece.
CanMoveToAnyOwner(b, i, newRow, newCol, newTileGrid) ==
    \A cell \in CellsAt(newRow, newCol, newTileGrid) : InBounds(cell)

\* The validation loop passing over an out-of-bounds cell (continue) where
\* it should reject the candidate (return false).
CanMoveToSkipsOutside(b, i, newRow, newCol, newTileGrid) ==
    \A cell \in CellsAt(newRow, newCol, newTileGrid) :
        InBounds(cell) => ~(b.pieceGrid[cell] # 0 /\ b.pieceGrid[cell] # i)

\* The validation loop without the test absoluteCol < 0: a cell left of the
\* board is passed over.
CanMoveToSkipsLeft(b, i, newRow, newCol, newTileGrid) ==
    \A cell \in CellsAt(newRow, newCol, newTileGrid) :
        cell[2] < 0 \/ (InBounds(cell) /\ ~(b.pieceGrid[cell] # 0 /\ b.pieceGrid[cell] # i))

\* The validation loop of Piece::moveTo for the piece at address i.
CanMoveTo(b, i, newRow, newCol, newTileGrid) ==
    \A cell \in CellsAt(newRow, newCol, newTileGrid) :
        /\ InBounds(cell)
        /\ ~(b.pieceGrid[cell] # 0 /\ b.pieceGrid[cell] # i)

\* One of the two writing loops of Piece::moveTo: pieceGrid[r][c] = value for
\* every cell of `cells`.
RECURSIVE WriteCells(_, _, _)
WriteCells(grid, cells, value) ==
    IF cells = {} THEN grid
    ELSE LET cell == CHOOSE c \in cells : TRUE
         IN  WriteCells([grid EXCEPT ![cell] = value], cells \ {cell}, value)

\* Piece::moveTo on the piece stored at address i (this == &pieces[i]).
\* Returns the verdict and the board after the call.
MoveTo(b, i, newRow, newCol, newTileGrid) ==
    IF ~CanMoveTo(b, i, newRow, newCol, newTileGrid)
    THEN [ok |-> FALSE, b |-> b]
    ELSE LET cleared == WriteCells(b.pieceGrid, OccupiedCells(b.pieces[i]), 0)
             written == WriteCells(cleared, CellsAt(newRow, newCol, newTileGrid), i)
         IN  [ok |-> TRUE,
              b  |-> [b EXCEPT !.pieceGrid = written,
                               !.pieces[i].row = newRow,
                               !.pieces[i].col = newCol]]

\* The transform with destCol computed from sourceCol:
\* dest[c][MAX_HEIGHT - c - 1] = src[r][c].
RotateGridByColumn(tg) == {<<t[2], MAX_HEIGHT - t[2] - 1>> : t \in tg}

\* The 90-degree transform of Piece::rotate: dest[c][MAX_HEIGHT - r - 1] = src[r][c].
RotateGrid(tg) == {<<t[2], MAX_HEIGHT - t[1] - 1>> : t \in tg}

\* Piece::rotate assigning the rotated footprint whatever moveTo returns.
RotateCommitsFirst(b, i) ==
    LET p == b.pieces[i]
        newTileGrid == RotateGrid(p.tileGrid)
        r == MoveTo(b, i, p.row, p.col, newTileGrid)
    IN  [ok |-> r.ok, b |-> [r.b EXCEPT !.pieces[i].tileGrid = newTileGrid]]

\* Piece::rotate on the piece at address i.
Rotate(b, i) ==
    LET p == b.pieces[i]
        newTileGrid == RotateGrid(p.tileGrid)
        r == MoveTo(b, i, p.row, p.col, newTileGrid)
    IN  IF r.ok
        THEN [ok |-> TRUE, b |-> [r.b EXCEPT !.pieces[i].tileGrid = newTileGrid]]
        ELSE r

Bit(x) == IF x THEN 1 ELSE 0

\* Piece::move returning !moveTo(...) without `&& direction == DOWN`.
MoveSignalsAnyReject(b, i, direction) ==
    LET p == b.pieces[i]
        newRow == p.row + Bit(direction = "DOWN") - Bit(direction = "UP")
        newCol == p.col + Bit(direction = "RIGHT") - Bit(direction = "LEFT")
        r == MoveTo(b, i, newRow, newCol, p.tileGrid)
    IN  [ok |-> r.ok, b |-> r.b, spawn |-> ~r.ok]

\* Piece::move on the piece at address i: `spawn` is the function's return
\* value (!moveTo(...) && direction == DOWN), `ok` the verdict of moveTo.
Move(b, i, direction) ==
    LET p == b.pieces[i]
        newRow == p.row + Bit(direction = "DOWN") - Bit(direction = "UP")
        newCol == p.col + Bit(direction = "RIGHT") - Bit(direction = "LEFT")
        r == MoveTo(b, i, newRow, newCol, p.tileGrid)
    IN  [ok |-> r.ok, b |-> r.b, spawn |-> ~r.ok /\ direction = "DOWN"]

\* Piece::removeTile indexing tileGrid with the board cell, the anchor not
\* subtracted.
RemoveTileUnanchored(p, rowToRemove, colToRemove) ==
    [p EXCEPT !.tileGrid = @ \ {<<rowToRemove, colToRemove>>}]

\* Piece::removeTile: clear the footprint sub-cell lying on (rowToRemove, colToRemove).
RemoveTile(p, rowToRemove, colToRemove) ==
    [p EXCEPT !.tileGrid = @ \ {<<rowToRemove - p.row, colToRemove - p.col>>}]

\* ------------------------------------------------------------ Board

\* Board::Board: the first piece is emplaced and made active; pieceGrid keeps
\* its initial nullptr values (the constructor makes no moveTo call).
NewBoard(k) ==
    [pieces        |-> <<NewPiece(k, 0)>>,
     pieceGrid     |-> EmptyGrid,
     activePiece   |-> 1,
     rowsCompleted |-> 0,
     colorIndex    |-> 1 % NUM_DEFAULT_COLORS]

\* The test leaving out the last column (col < NUM_COLS - 1).
IsRowFullShort(b, row) == \A col \in 0 .. NUM_COLS - 2 : b.pieceGrid[<<row, col>>] # 0

\* The test of Board::isRowFull; its rowsCompleted++ on a full row is the
\* first step of ClearRow (collapseFullRows is the only caller).
IsRowFull(b, row) == \A col \in 0 .. NUM_COLS - 1 : b.pieceGrid[<<row, col>>] # 0

\* The lambda answering false for every piece.
HasNoTilesNever(p) == FALSE

\* The lambda given to remove_if: the piece has no tile left.
HasNoTiles(p) == p.tileGrid = {}

\* TLC computes an operator's argument when it is first read; Evaluated(b),
\* TRUE of every board, has a loop take the board of the previous round
\* before it starts the next.
Evaluated(b) == b.rowsCompleted >= 0

\* The body of `for (Piece& piece : pieces) piece.moveTo(piece.row, piece.col,
\* piece.tileGrid, *this)` for the piece at address i.
RewriteOne(b, i) ==
    LET p == b.pieces[i]
    IN  MoveTo(b, i, p.row, p.col, p.tileGrid).b

\* That loop for the pieces at addresses lo .. hi, in increasing order (the
\* first half of the range, then the second).
RECURSIVE RewriteRange(_, _, _)
RewriteRange(b, lo, hi) ==
    IF lo > hi \/ ~Evaluated(b) THEN b
    ELSE IF lo = hi THEN RewriteOne(b, lo)
    ELSE LET mid == (lo + hi) \div 2
         IN  RewriteRange(RewriteRange(b, lo, mid), mid + 1, hi)

RewriteGrid(b) == RewriteRange(b, 1, Len(b.pieces))

\* One round of `while (!piece.move(Direction::DOWN, *this)) {}`.
MoveDown(b, i) == Move(b, i, "DOWN").b

\* n rounds in a row.
RECURSIVE MoveDownTimes(_, _, _)
MoveDownTimes(b, i, n) ==
    IF n = 0 \/ ~Evaluated(b) THEN b
    ELSE IF n = 1 THEN MoveDown(b, i)
    ELSE MoveDownTimes(MoveDownTimes(b, i, n \div 2), i, n - (n \div 2))

\* The while loop for the piece at address i: it ends at the first rejected
\* move, and a rejected move changes nothing, so NUM_ROWS rounds (more than a
\* piece can fall) leave the board the loop leaves.
Fall(b, i) == MoveDownTimes(b, i, NUM_ROWS)

\* The gravity loop for the pieces at addresses lo .. hi, in increasing order.
RECURSIVE FallRange(_, _, _)
FallRange(b, lo, hi) ==
    IF lo > hi \/ ~Evaluated(b) THEN b
    ELSE IF lo = hi THEN Fall(b, lo)
    ELSE LET mid == (lo + hi) \div 2
         IN  FallRange(FallRange(b, lo, mid), mid + 1, hi)

\* The gravity loop over the collection.
FallAll(b) == FallRange(b, 1, Len(b.pieces))

\* The column loop's body without the call of removeTile: only the grid's
\* reference is reset.
RemoveRowTileKeepsTile(b, row, col) ==
    [b EXCEPT !.pieceGrid[<<row, col>>] = 0]

\* The body of the loop over the columns of a full row:
\* pieceGrid[row][col]->removeTile(...); pieceGrid[row][col] = nullptr.
RemoveRowTile(b, row, col) ==
    LET i == b.pieceGrid[<<row, col>>]
    IN  IF i = 0 THEN b    \* not reached: isRowFull saw an owner in every column
        ELSE [b EXCEPT !.pieces[i] = RemoveTile(@, row, col),
                       !.pieceGrid[<<row, col>>] = 0]

\* That loop for the columns lo .. hi, in increasing order.
RECURSIVE RemoveRowTilesRange(_, _, _, _)
RemoveRowTilesRange(b, row, lo, hi) ==
    IF lo > hi \/ ~Evaluated(b) THEN b
    ELSE IF lo = hi THEN RemoveRowTile(b, row, lo)
    ELSE LET mid == (lo + hi) \div 2
         IN  RemoveRowTilesRange(RemoveRowTilesRange(b, row, lo, mid), row, mid + 1, hi)

RemoveRowTiles(b, row) == RemoveRowTilesRange(b, row, 0, NUM_COLS - 1)

\* collapseFullRows without the erase of the pieces left without tiles.
EraseNothing(ps) == ps

\* The erase taking out only the first piece left without tiles.
RECURSIVE EraseFirstNoTiles(_)
EraseFirstNoTiles(ps) ==
    IF ps = <<>> THEN <<>>
    ELSE IF HasNoTiles(Head(ps)) THEN Tail(ps)
    ELSE <<Head(ps)>> \o EraseFirstNoTiles(Tail(ps))

\* pieces.erase(remove_if(...)): the pieces that keep a tile, in their order.
RECURSIVE EraseNoTiles(_)
EraseNoTiles(ps) ==
    IF ps = <<>> THEN <<>>
    ELSE IF HasNoTiles(Head(ps)) THEN EraseNoTiles(Tail(ps))
    ELSE <<Head(ps)>> \o EraseNoTiles(Tail(ps))

\* The row body without `pieceGrid = { nullptr }`: the grid keeps the
\* addresses the pieces had before the erase.
EraseKeepsGrid(b, row) ==
    LET counted == [b EXCEPT !.rowsCompleted = @ + 1]
        removed == RemoveRowTiles(counted, row)
    IN  [removed EXCEPT !.pieces = EraseNoTiles(@)]

\* The body of collapseFullRows' row loop up to the reset of pieceGrid, for
\* a row isRowFull has counted as full: remove its tiles from their owners,
\* erase the pieces left without tiles, reset pieceGrid.
EraseAndReset(b, row) ==
    LET counted == [b EXCEPT !.rowsCompleted = @ + 1]
        removed == RemoveRowTiles(counted, row)
    IN  [removed EXCEPT !.pieces = EraseNoTiles(@), !.pieceGrid = EmptyGrid]

\* The part of the row body that precedes the gravity loop: the above, then
\* the re-writing of pieceGrid.
ClearRow(b, row) == RewriteGrid(EraseAndReset(b, row))

\* Board::collapseFullRows from row `row` on: the loop passes over the rows
\* isRowFull reports not full, and clears the first full one it meets.
RECURSIVE CollapseFrom(_, _)
CollapseFrom(b, row) ==
    LET full == {r \in row .. NUM_ROWS - 1 : IsRowFull(b, r)}
    IN  IF full = {} THEN b
        ELSE LET first == CHOOSE r \in full : \A q \in full : r <= q
             IN  CollapseFrom(FallAll(ClearRow(b, first)), first + 1)

CollapseFullRows(b) == CollapseFrom(b, 0)

\* The spawn branch without pieces.pop_back() on a rejected placement.
SpawnKeepsPiece(b, k) ==
    LET c == CollapseFullRows(b)
        n == Len(c.pieces) + 1
        e == [c EXCEPT !.pieces = Append(@, NewPiece(k, c.colorIndex)),
                       !.colorIndex = (@ + 1) % NUM_DEFAULT_COLORS,
                       !.activePiece = n]
        r == MoveTo(e, n, 0, 0, e.pieces[n].tileGrid)
    IN  IF r.ok
        THEN [b |-> r.b, result |-> TRUE]
        ELSE [b |-> e, result |-> FALSE]

\* The spawn branch of Board::update: collapse, emplace a new piece, make it
\* active and place it; on a rejected placement pop it again, which leaves
\* activePiece pointing one past the last element.
Spawn(b, k) ==
    LET c == CollapseFullRows(b)
        n == Len(c.pieces) + 1
        e == [c EXCEPT !.pieces = Append(@, NewPiece(k, c.colorIndex)),
                       !.colorIndex = (@ + 1) % NUM_DEFAULT_COLORS,
                       !.activePiece = n]
        r == MoveTo(e, n, 0, 0, e.pieces[n].tileGrid)
    IN  IF r.ok
        THEN [b |-> r.b, result |-> TRUE]
        ELSE [b |-> [e EXCEPT !.pieces = SubSeq(@, 1, n - 1)], result |-> FALSE]

\* The first branch acting on pieces.front() instead of activePiece.
RelocateFront(b, direction) ==
    IF direction = "UP"
    THEN LET r == Rotate(b, 1)
         IN  [ok |-> r.ok, b |-> r.b, spawn |-> FALSE]
    ELSE Move(b, 1, direction)

\* The first branch of Board::update: rotate on UP, move otherwise.
\* ok: the verdict of the active piece's moveTo; spawn: shouldSpawn.
Relocate(b, direction) ==
    IF direction = "UP"
    THEN LET r == Rotate(b, b.activePiece)
         IN  [ok |-> r.ok, b |-> r.b, spawn |-> FALSE]
    ELSE Move(b, b.activePiece, direction)

\* Board::update(direction); k is the footprint the random device draws if a
\* piece is constructed.  result: the return value.
BoardUpdate(b, direction, k) ==
    LET m == Relocate(b, direction)
    IN  IF m.spawn
        THEN LET s == Spawn(m.b, k)
             IN  [b |-> s.b, ok |-> m.ok, spawn |-> TRUE, result |-> s.result]
        ELSE [b |-> m.b, ok |-> m.ok, spawn |-> FALSE, result |-> TRUE]

\* ------------------------------------------------------------ boards

\* The boards Board::Board can construct: one per footprint draw.
FreshBoards == {NewBoard(k) : k \in 0 .. NUM_DEFAULT_PIECES - 1}

\* A key sequence: n times the command `direction`; k is the footprint drawn
\* if the command constructs a piece.
Keys(direction, n, k) == [j \in 1 .. n |-> <<direction, k>>]

\* The keys that steer the active piece (rot rotations, then dx columns to
\* the right, or -dx to the left) followed by `downs` DOWN commands, the last
\* of which settles it; k is the draw for the next piece.
Place(rot, dx, downs, k) ==
    Keys("UP", rot, 0)
    \o Keys(IF dx < 0 THEN "LEFT" ELSE "RIGHT", IF dx < 0 THEN -dx ELSE dx, 0)
    \o Keys("DOWN", downs, k)

\* The update calls keys[lo] .. keys[hi], issued as long as the game is not over.
RECURSIVE PlayRange(_, _, _, _)
PlayRange(b, keys, lo, hi) ==
    IF lo > hi \/ b.activePiece > Len(b.pieces) THEN b
    ELSE IF lo = hi THEN BoardUpdate(b, keys[lo][1], keys[lo][2]).b
    ELSE LET mid == (lo + hi) \div 2
         IN  PlayRange(PlayRange(b, keys, lo, mid), keys, mid + 1, hi)

Play(b, keys) == PlayRange(b, keys, 1, Len(keys))

\* The first piece three rows above the floor.
NearFloor(k) == Play(NewBoard(k), Keys("DOWN", 16, 0))

\* The first piece seven columns to the right of the spawn anchor.
NearWall(k) == Play(NewBoard(k), Keys("RIGHT", 7, 0))

\* Row 19 holds two I pieces and one O piece; the active O piece hangs over
\* the last two free columns.
FullRowKeys == Place(0, 0, 20, 0) \o Place(0, 4, 20, 4) \o Place(0, 8, 19, 4)
NearFullRow == Play(NewBoard(0), FullRowKeys \o Keys("RIGHT", 10, 0) \o Keys("DOWN", 16, 0))

\* Row 19 holds two I pieces; the T piece hangs over columns 8..10, which
\* leaves column 11 of the row free.
NearElevenRow ==
    Play(NewBoard(0), Place(0, 0, 20, 0) \o Place(0, 4, 20, 1)
                          \o Keys("RIGHT", 8, 0) \o Keys("DOWN", 16, 0))

\* Four upright I pieces stacked in column 3 reach up to row 4.
TopKeys == Place(1, 0, 17, 0) \o Place(1, 0, 13, 0) \o Place(1, 0, 9, 0) \o Place(1, 0, 5, 0)
NearTop == Play(NewBoard(0), TopKeys)

\* A stack whose row 6 lacks only column 3 (which is filled in row 7), built
\* on two towers of upright I pieces in columns 3 and 7; row 5 is then filled
\* up to columns 8..11: an upright I in column 0, the T piece's tip in column
\* 1, a flat I over the gap in column 3, an O piece.
StackKeys ==
    Place(1, 0, 17, 0) \o Place(1, 0, 13, 0) \o Place(1, 0, 9, 0)
    \o Place(1, 4, 17, 0) \o Place(1, 4, 13, 0) \o Place(1, 4, 9, 0)
    \o Place(0, 0, 8, 0) \o Place(0, 5, 8, 1) \o Place(0, 0, 6, 0)
    \o Place(0, 4, 7, 0) \o Place(0, 8, 7, 0)
    \o Place(1, -3, 3, 0) \o Place(0, 2, 6, 4) \o Place(0, 6, 5, 0)

\* The last flat I hangs one row above columns 8..11 of row 5.
LastKeys == Keys("RIGHT", 8, 0) \o Keys("DOWN", 4, 0)
NearFullRowFive == Play(NewBoard(0), StackKeys \o LastKeys)

\* The same with an upright I standing in column 3 on the flat I of row 5.
NearFullRowFiveLoaded == Play(NewBoard(0), StackKeys \o Place(1, 0, 2, 0) \o LastKeys)

\* An O piece in columns 0..1 of rows 18..19 carries a flat I in row 17
\* (columns 0..3); a second O piece, constructed after the I, is steered under
\* the I's overhang (columns 2..3 of rows 18..19); a flat I fills columns
\* 4..7 of row 19.
OverhangKeys ==
    Place(0, 0, 19, 0) \o Place(0, 0, 18, 4)
    \o Keys("RIGHT", 4, 0) \o Keys("DOWN", 18, 0) \o Keys("LEFT", 2, 0) \o Keys("DOWN", 1, 0)
    \o Place(0, 4, 20, 0)

\* The flat I that completes row 19 hangs over its columns 8..11.
NearOverhangRow ==
    Play(NewBoard(4), OverhangKeys \o Keys("RIGHT", 8, 0) \o Keys("DOWN", 16, 0))

\* The flat I that completes row 19 (the row is cleared); then a flat I in
\* columns 4..7 of row 19, another on top of it in row 18, an O piece in
\* columns 8..9 of rows 18..19.
RefillKeys ==
    Place(0, 8, 20, 0) \o Place(0, 4, 20, 0) \o Place(0, 4, 19, 4) \o Place(0, 8, 19, 4)

\* The O piece that completes row 19 again hangs over its columns 10..11.
NearRefilledRow ==
    Play(NewBoard(4), OverhangKeys \o RefillKeys \o Keys("RIGHT", 10, 0) \o Keys("DOWN", 15, 0))

\* Boards reached by playing: each is computed from a constructed board by
\* update calls alone.
PlayedBoards ==
    {NearFloor(k) : k \in 0 .. NUM_DEFAULT_PIECES - 1}
    \cup {NearWall(k) : k \in 0 .. NUM_DEFAULT_PIECES - 1}
    \cup {NearFullRow, NearElevenRow, NearTop, NearFullRowFive, NearFullRowFiveLoaded}
    \cup {NearOverhangRow, NearRefilledRow}

\* ------------------------------------------------------------ state

VARIABLES
    pieces,         \* Board::pieces
    pieceGrid,      \* Board::pieceGrid
    activePiece,    \* Board::activePiece
    rowsCompleted,  \* Board::rowsCompleted
    colorIndex,     \* the static colorIndex of Piece::Piece
    last,           \* the last update call: its argument, the number of pieces
                    \* when it was made, the verdict of the active piece's
                    \* moveTo, shouldSpawn, the footprint drawn for the piece
                    \* it constructed and the return value
    nUpdates,       \* update calls made since the initial state
    pc,             \* main: where the loop stands
    quit,           \* main: quit
    updateSuccess,  \* main: updateSuccess
    reported,       \* main: "Game Over!" has been written
    lateCalls,      \* update calls issued after an update call returned false
    turning         \* a footprint under the transform of Piece::rotate: the
                    \* footprint it started as (src), what it is now (dest)
                    \* and the number of transforms applied (turns)

boardVars == <<pieces, pieceGrid, activePiece, rowsCompleted, colorIndex>>
mainVars == <<pc, quit, updateSuccess, reported, lateCalls>>
vars == <<pieces, pieceGrid, activePiece, rowsCompleted, colorIndex, last, nUpdates,
          pc, quit, updateSuccess, reported, lateCalls, turning>>

board ==
    [pieces |-> pieces, pieceGrid |-> pieceGrid, activePiece |-> activePiece,
     rowsCompleted |-> rowsCompleted, colorIndex |-> colorIndex]

\* No footprint is being turned.
NoTurn == [src |-> {}, dest |-> {}, turns |-> 0]

NoCall ==
    [direction |-> "NONE", len |-> 0, ok |-> TRUE, shouldSpawn |-> FALSE,
     draw |-> 0, result |-> TRUE]

SetBoard(b) ==
    /\ pieces' = b.pieces
    /\ pieceGrid' = b.pieceGrid
    /\ activePiece' = b.activePiece
    /\ rowsCompleted' = b.rowsCompleted
    /\ colorIndex' = b.colorIndex

BoardIs(b) ==
    /\ pieces = b.pieces
    /\ pieceGrid = b.pieceGrid
    /\ activePiece = b.activePiece
    /\ rowsCompleted = b.rowsCompleted
    /\ colorIndex = b.colorIndex

\* update has returned false: activePiece points one past the last element.
GameOver == activePiece > Len(pieces)

\* One call board.update(direction) on a board whose activePiece is valid;
\* the footprint draw k is an input only when a piece is constructed.
Call(direction) ==
    LET m == Relocate(board, direction)
    IN  /\ \E k \in IF m.spawn THEN 0 .. NUM_DEFAULT_PIECES - 1 ELSE {0} :
              LET u == BoardUpdate(board, direction, k)
              IN  /\ SetBoard(u.b)
                  /\ last' = [direction |-> direction, len |-> Len(pieces),
                              ok |-> u.ok, shouldSpawn |-> u.spawn, draw |-> k,
                              result |-> u.result]
        /\ nUpdates' = nUpdates + 1
        /\ UNCHANGED turning

\* ------------------------------------------------------------ the Board's
\* interface, called by a client that stops at game over

InitMain ==
    /\ pc = "loop"
    /\ quit = FALSE
    /\ updateSuccess = TRUE
    /\ reported = FALSE
    /\ lateCalls = 0

Init ==
    /\ \E b \in FreshBoards \cup PlayedBoards : BoardIs(b)
    /\ last = NoCall
    /\ nUpdates = 0
    /\ InitMain
    /\ turning = NoTurn

Update(direction) ==
    /\ ~GameOver
    /\ nUpdates < MaxUpdates
    /\ Call(direction)
    /\ UNCHANGED mainVars

Next == \E direction \in Direction : Update(direction)

Spec == Init /\ [][Next]_vars

\* ------------------------------------------------------------ the session
\* in which only the gravity tick of main issues commands

InitGravity ==
    /\ \E b \in FreshBoards : BoardIs(b)
    /\ last = NoCall
    /\ nUpdates = 0
    /\ InitMain
    /\ turning = NoTurn

GravityTick ==
    /\ ~GameOver
    /\ nUpdates < MaxTicks
    /\ Call("DOWN")
    /\ UNCHANGED mainVars

SpecGravity == InitGravity /\ [][GravityTick]_vars

\* ------------------------------------------------------------ main

\* Bound of the driver's session: update calls main issues on a valid board.
MaxCalls == 4

InitDriver ==
    /\ \E b \in FreshBoards \cup {NearTop} : BoardIs(b)
    /\ last = NoCall
    /\ nUpdates = 0
    /\ InitMain
    /\ turning = NoTurn

\* board.update called after a call has returned false: activePiece points
\* at the element pop_back destroyed, so the call has undefined behaviour and
\* the model follows the program no further.
LateCall ==
    /\ lateCalls' = lateCalls + 1
    /\ pc' = "undefined"
    /\ UNCHANGED <<boardVars, turning, last, nUpdates, quit, updateSuccess, reported>>

\* while (!quit), now > gravityDeadline: board.update(Direction::DOWN), whose
\* return value is dropped.
GravityDue ==
    /\ pc = "loop" /\ ~quit
    /\ nUpdates < MaxCalls
    /\ IF GameOver THEN LateCall
       ELSE /\ Call("DOWN")
            /\ pc' = "poll"
            /\ UNCHANGED <<quit, updateSuccess, reported, lateCalls>>

\* while (!quit), the deadline not reached.
GravityNotDue ==
    /\ pc = "loop" /\ ~quit
    /\ pc' = "poll"
    /\ UNCHANGED <<boardVars, turning, last, nUpdates, quit, updateSuccess, reported, lateCalls>>

\* SDL_PollEvent delivers SDL_KEYDOWN with an arrow key: updateSuccess =
\* board.update(direction); if (!updateSuccess) quit = true; the event loop
\* goes on.
KeyDown(direction) ==
    /\ pc = "poll"
    /\ nUpdates < MaxCalls
    /\ IF GameOver THEN LateCall
       ELSE /\ Call(direction)
            /\ updateSuccess' = last'.result
            /\ quit' = (quit \/ ~last'.result)
            /\ UNCHANGED <<pc, reported, lateCalls>>

\* SDL_PollEvent delivers SDL_QUIT.  (Events of other types and other keys
\* assign nothing: quit is already true whenever updateSuccess is false.)
QuitEvent ==
    /\ pc = "poll"
    /\ quit' = TRUE
    /\ UNCHANGED <<boardVars, turning, last, nUpdates, pc, updateSuccess, reported, lateCalls>>

\* SDL_PollEvent returns 0: if (!updateSuccess) "Game Over!" is written, and
\* the outer loop tests quit again.
QueueEmpty ==
    /\ pc = "poll"
    /\ reported' = (reported \/ ~updateSuccess)
    /\ pc' = "loop"
    /\ UNCHANGED <<boardVars, turning, last, nUpdates, quit, updateSuccess, lateCalls>>

\* while (!quit) ends: the window is destroyed and main returns 0.
LoopExit ==
    /\ pc = "loop" /\ quit
    /\ pc' = "exit"
    /\ UNCHANGED <<boardVars, turning, last, nUpdates, quit, updateSuccess, reported, lateCalls>>

NextMain ==
    \/ GravityDue
    \/ GravityNotDue
    \/ \E direction \in Direction : KeyDown(direction)
    \/ QuitEvent
    \/ QueueEmpty
    \/ LoopExit

SpecMain == InitDriver /\ [][NextMain]_vars

\* ------------------------------------------------------------ the
\* transform of Piece::rotate applied to a footprint over and over

\* Bound: the tiles of a footprint (a catalog footprint has four, removeTile
\* only clears tiles).
MaxTiles == 4

\* Bound: the transforms applied to one footprint.
MaxTurns == 8

\* The sub-cells of a TileGridType.
SubCells == (0 .. MAX_HEIGHT - 1) \X (0 .. MAX_WIDTH - 1)

\* The TileGridType values with at most MaxTiles tiles.
Footprints == {tg \in SUBSET SubCells : Cardinality(tg) <= MaxTiles}

InitTurning ==
    /\ \E tg \in Footprints : turning = [src |-> tg, dest |-> tg, turns |-> 0]
    /\ BoardIs(NewBoard(0))
    /\ last = NoCall
    /\ nUpdates = 0
    /\ InitMain

\* The transform loop of Piece::rotate run on the footprint.
Turn ==
    /\ turning.turns < MaxTurns
    /\ turning' = [turning EXCEPT !.dest = RotateGrid(@), !.turns = @ + 1]
    /\ UNCHANGED <<boardVars, last, nUpdates, mainVars>>

SpecTurning == InitTurning /\ [][Turn]_vars

\* ------------------------------------------------------------ properties

ActiveCells == OccupiedCells(pieces[activePiece])

\* The board cells every piece of the collection of b occupies.
AllCells(b) == UNION {OccupiedCells(b.pieces[i]) : i \in 1 .. Len(b.pieces)}

RowCells(row) == {<<row, col>> : col \in 0 .. NUM_COLS - 1}

\* The number of owned cells of a row of a grid.
RowCount(grid, row) == Cardinality({cell \in RowCells(row) : grid[cell] # 0})

\* The active piece's DOWN relocation is rejected on the current board.
DownRejected ==
    LET p == pieces[activePiece]
    IN  ~CanMoveTo(board, activePiece, p.row + 1, p.col, p.tileGrid)

\* I1: a cell is an occupied cell of piece i iff pieceGrid[cell] references it.
I1 ==
    \A i \in 1 .. Len(pieces) : \A cell \in Cells :
        (cell \in OccupiedCells(pieces[i])) <=> (pieceGrid[cell] = i)

\* C1: after every update call made on a freshly constructed board, I1 holds:
\* a cell is in a piece's occupied cells iff pieceGrid references the piece there.
C1_I1AfterEveryUpdate == nUpdates > 0 => I1

\* C2: no board cell is an occupied cell of two distinct pieces of the
\* collection, in any state.
C2_NoOverlap ==
    \A i, j \in 1 .. Len(pieces) :
        i # j => OccupiedCells(pieces[i]) \cap OccupiedCells(pieces[j]) = {}

\* A LEFT command was rejected because the candidate cells meet another piece.
C2_RejectedByOwner ==
    /\ ~GameOver /\ Len(pieces) >= 2
    /\ last.direction = "LEFT" /\ ~last.ok
    /\ LET p == pieces[activePiece]
       IN  \E cell \in CellsAt(p.row, p.col - 1, p.tileGrid) :
               InBounds(cell) /\ pieceGrid[cell] # 0 /\ pieceGrid[cell] # activePiece

\* C3: every occupied cell of every piece lies in rows 0..19 and columns
\* 0..11, in every state (so after every move, rotation, spawn placement,
\* collapse rebuild and gravity fall), and whatever relocation of the active
\* piece moveTo accepts next puts its cells inside the board too.
C3_Bounds ==
    /\ \A i \in 1 .. Len(pieces) : OccupiedCells(pieces[i]) \subseteq Cells
    /\ ~GameOver =>
         \A direction \in Direction :
             LET m == Relocate(board, direction)
             IN  m.ok => OccupiedCells(m.b.pieces[activePiece]) \subseteq Cells

\* An accepted RIGHT move has put the active piece against the right wall.
C3_AtRightWall ==
    /\ ~GameOver
    /\ last.direction = "RIGHT" /\ last.ok
    /\ \E cell \in ActiveCells : cell[2] = NUM_COLS - 1

\* C4: a relocation of the active piece that moveTo rejects, reached through
\* move or through rotate, leaves anchor, footprint and pieceGrid (the whole
\* board) as they were before the call.
C4_RejectedMutatesNothing ==
    ~GameOver =>
        \A direction \in Direction :
            LET m == Relocate(board, direction)
            IN  ~m.ok => m.b = board

\* A rotation was rejected for an upright piece wedged against the left wall.
C4_RotationRejectedAtWall ==
    /\ ~GameOver
    /\ last.direction = "UP" /\ ~last.ok
    /\ pieces[activePiece].col < 0
    /\ ~Relocate(board, "UP").ok

\* C5: an update call collapses full rows and constructs a new active piece
\* at the spawn anchor iff its command is DOWN and the active piece's downward
\* relocation is rejected; every other call leaves the same piece active,
\* constructs nothing and completes no row.  (The construction of a piece
\* shows in the static colorIndex, the collapse in the collection it leaves.)
C5_SettleThenSpawn ==
    [][LET constructed == colorIndex' # colorIndex
           c == CollapseFullRows(board)
       IN  /\ constructed <=> (last'.direction = "DOWN" /\ DownRejected)
           /\ last'.shouldSpawn <=> constructed
           /\ ~constructed =>
                /\ activePiece' = activePiece
                /\ Len(pieces') = Len(pieces)
                /\ rowsCompleted' = rowsCompleted
           /\ constructed =>
                /\ rowsCompleted' = c.rowsCompleted
                /\ SubSeq(pieces', 1, Len(c.pieces)) = c.pieces
           /\ (constructed /\ last'.result) =>
                /\ activePiece' = Len(pieces')
                /\ Len(pieces') = Len(c.pieces) + 1
                /\ pieces'[activePiece'].row = 0
                /\ pieces'[activePiece'].col = 0]_vars

\* A settling DOWN completed a row and spawned the next piece.
C5_SettledWithCollapse ==
    /\ last.direction = "DOWN" /\ last.shouldSpawn /\ last.result
    /\ rowsCompleted > 0
    /\ activePiece = Len(pieces)

\* C6: update returns false iff in that call the active piece settled and
\* the new piece's footprint meets an owned cell of the post-collapse grid at
\* the spawn anchor; the collection and the grid are then those the collapse
\* left.  Every other call returns true.
C6_GameOver ==
    [][LET c == CollapseFullRows(board)
           blocked == \E cell \in CellsAt(0, 0, DEFAULT_PIECES[last'.draw]) :
                          ~InBounds(cell) \/ c.pieceGrid[cell] # 0
       IN  /\ ~last'.result <=> (last'.direction = "DOWN" /\ DownRejected /\ blocked)
           /\ ~last'.result => (pieces' = c.pieces /\ pieceGrid' = c.pieceGrid)]_vars

\* An update call has returned false after the active piece settled.
C6_ReturnedFalse ==
    /\ GameOver
    /\ last.shouldSpawn /\ ~last.result

\* C7: once an update call has returned false, main issues no further
\* update call.
C7_NoUpdateAfterGameOver == lateCalls = 0

\* The first piece is the flat I and 20 gravity ticks have been issued.
C8_TwentyTicksOnI ==
    /\ nUpdates = 20
    /\ pieces[1].tileGrid = DEFAULT_PIECES[0]

\* C8 as stated: after 20 DOWN commands on the empty board the I piece has
\* settled at row 19, and the 20th call returns true with a new active piece
\* at anchor (0,4).
C8_SpawnAtColumnFour ==
    C8_TwentyTicksOnI =>
        /\ pieces[1].row = 19
        /\ last.result
        /\ Len(pieces) = 2 /\ activePiece = 2
        /\ pieces[2].row = 0 /\ pieces[2].col = 4

\* C8, amended: the I piece is constructed at anchor (0,0); after 20 DOWN
\* commands it has settled at row 19 (columns 0..3), and the 20th call
\* returns true with a new active piece at anchor (0,0).
C8_SpawnAtOrigin ==
    C8_TwentyTicksOnI =>
        /\ pieces[1].row = 19 /\ pieces[1].col = 0
        /\ last.shouldSpawn /\ last.result
        /\ Len(pieces) = 2 /\ activePiece = 2
        /\ pieces[2].row = 0 /\ pieces[2].col = 0

\* The 20th tick on the I piece's board has settled it.
C8_Settled == C8_TwentyTicksOnI /\ last.shouldSpawn

\* Row 5 has all 12 columns owned and row 6 has 11 of 12.
C9_RowFiveFull == IsRowFull(board, 5) /\ RowCount(pieceGrid, 6) = NUM_COLS - 1

\* The pieces that own a cell outside row 5.
C9_Kept == {i \in 1 .. Len(pieces) : OccupiedCells(pieces[i]) \ RowCells(5) # {}}

\* C9 as stated: on such a board collapseFullRows removes exactly the 12
\* cells of row 5, leaves row 6 with its 11 owned cells, and keeps exactly
\* the pieces that owned a cell outside row 5.
C9_OnlyRowFiveCleared ==
    C9_RowFiveFull =>
        LET c == CollapseFullRows(board)
        IN  /\ Cardinality(AllCells(c)) = Cardinality(AllCells(board)) - NUM_COLS
            /\ RowCount(c.pieceGrid, 6) = NUM_COLS - 1
            /\ Len(c.pieces) = Cardinality(C9_Kept)

\* C9, amended: on such a board, row 5 being the first full row, the clearing
\* of row 5 (before the gravity loop) removes exactly the 12 cells of row 5,
\* leaves row 6 with its 11 owned cells, erases the pieces that owned cells
\* only in row 5 and shrinks the others; the whole call removes 12 cells for
\* each row it completes, and it completes at least row 5.
C9_RowClear ==
    (C9_RowFiveFull /\ \A row \in 0 .. 4 : ~IsRowFull(board, row)) =>
        LET c1 == ClearRow(board, 5)
            c == CollapseFullRows(board)
        IN  /\ AllCells(c1) = AllCells(board) \ RowCells(5)
            /\ RowCount(c1.pieceGrid, 6) = NUM_COLS - 1
            /\ Len(c1.pieces) = Cardinality(C9_Kept)
            /\ {OccupiedCells(c1.pieces[j]) : j \in 1 .. Len(c1.pieces)}
                 = {OccupiedCells(pieces[i]) \ RowCells(5) : i \in C9_Kept}
            /\ c.rowsCompleted > rowsCompleted
            /\ Cardinality(AllCells(c))
                 = Cardinality(AllCells(board)) - NUM_COLS * (c.rowsCompleted - rowsCompleted)

\* On such a board the gravity loop drops a piece into the gap of row 6 and
\* the collapse completes two rows.
C9_RowSixFollows ==
    /\ C9_RowFiveFull
    /\ CollapseFullRows(board).rowsCompleted = rowsCompleted + 2

\* C10: every piece of the collection has at least one occupied cell, in
\* every state: no piece with an empty footprint is kept.
C10_NoEmptyPiece ==
    \A i \in 1 .. Len(pieces) : OccupiedCells(pieces[i]) # {}

\* The collapse of the last update call erased a piece.
C10_PieceErased ==
    /\ last.shouldSpawn /\ last.result
    /\ Len(pieces) < last.len + 1

\* C11: the transform dest[c][3 - r] = src[r][c] has order four: after four
\* (and after eight) applications a footprint is identical to the original.
C11_RotationOrderFour ==
    turning.turns % 4 = 0 => turning.dest = turning.src

\* A catalog footprint that one transform changes has been turned four times.
C11_TurnedFourTimes ==
    /\ turning.turns = 4
    /\ turning.src = DEFAULT_PIECES[2]
    /\ RotateGrid(turning.src) # turning.src

\* C12 as stated: the anchor of every piece is a cell of the board, row in
\* 0..19 and col in 0..11.
C12_AnchorIsCell ==
    \A i \in 1 .. Len(pieces) : InBounds(<<pieces[i].row, pieces[i].col>>)

\* C12, amended: the anchor of every piece has its row in 0..19 and its col
\* in -3..11 (col > -MAX_WIDTH); the col is negative for a piece whose
\* footprint has empty left columns and that was moved LEFT.
C12_AnchorRange ==
    \A i \in 1 .. Len(pieces) :
        /\ 0 <= pieces[i].row /\ pieces[i].row < NUM_ROWS
        /\ -MAX_WIDTH < pieces[i].col /\ pieces[i].col < NUM_COLS

\* An accepted LEFT move has put the anchor of a rotated piece at col -3.
C12_AnchorLeftOfBoard ==
    /\ ~GameOver
    /\ last.direction = "LEFT" /\ last.ok
    /\ pieces[activePiece].col = 1 - MAX_WIDTH

\* The first full row of b from `row` on, NUM_ROWS if there is none.
FirstFullRow(b, row) ==
    LET full == {r \in row .. NUM_ROWS - 1 : IsRowFull(b, r)}
    IN  IF full = {} THEN NUM_ROWS ELSE CHOOSE r \in full : \A q \in full : r <= q

\* The value moveTo returns to the rebuild loop for the piece at address i,
\* x being the board at the start of the loop.
RebuildVerdict(x, i) ==
    LET p == x.pieces[i]
    IN  MoveTo(RewriteRange(x, 1, i - 1), i, p.row, p.col, p.tileGrid).ok

\* Every cell of every piece of b references the piece in pieceGrid.
Registered(b) ==
    \A i \in 1 .. Len(b.pieces) :
        \A cell \in OccupiedCells(b.pieces[i]) : InBounds(cell) /\ b.pieceGrid[cell] = i

Reverse(ps) == [i \in 1 .. Len(ps) |-> ps[Len(ps) + 1 - i]]

\* The rebuild of x accepts every piece and registers it, in the order of
\* the collection and in the reverse order.
RebuildLegal(x) ==
    LET y == [x EXCEPT !.pieces = Reverse(@)]
    IN  /\ \A i \in 1 .. Len(x.pieces) : RebuildVerdict(x, i)
        /\ Registered(RewriteGrid(x))
        /\ \A i \in 1 .. Len(y.pieces) : RebuildVerdict(y, i)
        /\ Registered(RewriteGrid(y))

\* RebuildLegal for every row the collapse of b clears, from `row` on.
RECURSIVE RebuildsLegalFrom(_, _)
RebuildsLegalFrom(b, row) ==
    LET first == FirstFullRow(b, row)
    IN  IF first = NUM_ROWS THEN TRUE
        ELSE /\ RebuildLegal(EraseAndReset(b, first))
             /\ RebuildsLegalFrom(FallAll(ClearRow(b, first)), first + 1)

\* C13: in the collapse a settling DOWN runs, for every row cleared, the
\* moveTo call of the rebuild returns true for every surviving piece (in the
\* collection's order and in the reverse order) and leaves every piece
\* registered in pieceGrid.
C13_RebuildLegal ==
    (~GameOver /\ DownRejected) => RebuildsLegalFrom(board, 0)

\* The active piece rests in the full row 19: the next DOWN clears it and
\* erases pieces, which moves the survivors to new addresses.
C13_RebuildAfterErase ==
    /\ ~GameOver /\ DownRejected
    /\ IsRowFull(board, NUM_ROWS - 1)
    /\ Len(EraseAndReset(board, NUM_ROWS - 1).pieces) < Len(pieces)

\* The gravity loop's turn of the piece at address i, x being the board at
\* the start of the loop: the board before and after its while loop.
BeforeFall(x, i) == FallRange(x, 1, i - 1)
AfterFall(x, i) == Fall(BeforeFall(x, i), i)

\* The rows the piece at address i falls in its turn.
RowsFallen(x, i) == AfterFall(x, i).pieces[i].row - BeforeFall(x, i).pieces[i].row

\* The while loop of the piece at address i ends: the piece has a tile, it
\* makes fewer than NUM_ROWS accepted moves, and the next DOWN is rejected.
FallEnds(x, i) ==
    /\ x.pieces[i].tileGrid # {}
    /\ 0 <= RowsFallen(x, i) /\ RowsFallen(x, i) < NUM_ROWS
    /\ Move(AfterFall(x, i), i, "DOWN").spawn

\* FallEnds for every piece, for every row the collapse of b clears from
\* `row` on.
RECURSIVE FallsEndFrom(_, _)
FallsEndFrom(b, row) ==
    LET first == FirstFullRow(b, row)
        x == ClearRow(b, first)
    IN  IF first = NUM_ROWS THEN TRUE
        ELSE /\ \A i \in 1 .. Len(x.pieces) : FallEnds(x, i)
             /\ FallsEndFrom(FallAll(x), first + 1)

\* C14: in the collapse a settling DOWN runs, every per-piece gravity loop
\* ends: the piece has at least one occupied cell, fewer than NUM_ROWS DOWN
\* moves are accepted, each taking it one row down, and then one is rejected.
C14_GravityTerminates ==
    (~GameOver /\ DownRejected) => FallsEndFrom(board, 0)

\* The next DOWN clears a row and a piece then falls at least one row.
C14_PieceFalls ==
    /\ ~GameOver /\ DownRejected
    /\ FirstFullRow(board, 0) < NUM_ROWS
    /\ LET x == ClearRow(board, FirstFullRow(board, 0))
       IN  \E i \in 1 .. Len(x.pieces) : RowsFallen(x, i) > 0

\* C15: an update call that does not settle the active piece (any command
\* but a rejected DOWN) leaves every other piece, the length and order of the
\* collection, the active piece's identity and colour, rowsCompleted, and
\* every grid cell outside the active piece's old and new cells unchanged.
C15_OnlyActivePieceMoves ==
    [][~(last'.direction = "DOWN" /\ DownRejected) =>
          /\ Len(pieces') = Len(pieces)
          /\ activePiece' = activePiece
          /\ \A i \in 1 .. Len(pieces) : i # activePiece => pieces'[i] = pieces[i]
          /\ pieces'[activePiece].color = pieces[activePiece].color
          /\ rowsCompleted' = rowsCompleted
          /\ colorIndex' = colorIndex
          /\ \A cell \in Cells \ (ActiveCells \cup OccupiedCells(pieces'[activePiece])) :
                 pieceGrid'[cell] = pieceGrid[cell]]_vars

\* The active piece was rotated while settled pieces lie on the board.
C15_RotatedAmongSettled ==
    /\ ~GameOver
    /\ last.direction = "UP" /\ last.ok
    /\ Len(pieces) >= 2

\* No row of the grid has all its NUM_COLS cells owned.
NoRowFull == \A row \in 0 .. NUM_ROWS - 1 : RowCount(pieceGrid, row) < NUM_COLS

\* The cells of the piece the last update call spawned (none if it returned false).
SpawnedCells == IF last.result THEN ActiveCells ELSE {}

\* C16: an update call that settles the active piece on a board without a
\* full row changes no piece of the collection, removes none, completes no
\* row and changes no grid cell but those the new piece is placed on.
C16_CollapseNoOp ==
    [][(last'.direction = "DOWN" /\ DownRejected /\ NoRowFull) =>
          /\ Len(pieces') >= Len(pieces)
          /\ SubSeq(pieces', 1, Len(pieces)) = pieces
          /\ rowsCompleted' = rowsCompleted
          /\ CollapseFullRows(board) = board
          /\ \A cell \in Cells \ SpawnedCells' : pieceGrid'[cell] = pieceGrid[cell]]_vars

\* A piece settled leaving a row with 11 of its 12 cells owned, and nothing
\* was cleared.
C16_SettledOnElevenRow ==
    /\ last.shouldSpawn /\ last.result
    /\ rowsCompleted = 0
    /\ RowCount(pieceGrid, NUM_ROWS - 1) = NUM_COLS - 1

\* C17: the collapse a settling DOWN runs returns a board none of whose rows
\* is full.
C17_NoFullRowAfterCollapse ==
    (~GameOver /\ DownRejected) =>
        \A row \in 0 .. NUM_ROWS - 1 : ~IsRowFull(CollapseFullRows(board), row)

\* C18: after a collapse that cleared a row, a DOWN move of any piece of the
\* collection is rejected.
C18_AllAtRest ==
    (~GameOver /\ DownRejected /\ FirstFullRow(board, 0) < NUM_ROWS) =>
        LET c == CollapseFullRows(board)
        IN  \A i \in 1 .. Len(c.pieces) : Move(c, i, "DOWN").spawn

\* The number of set tileGrid entries of the first n pieces of a collection.
RECURSIVE TilesUpTo(_, _)
TilesUpTo(ps, n) ==
    IF n = 0 THEN 0 ELSE TilesUpTo(ps, n - 1) + Cardinality(ps[n].tileGrid)

\* The total number of occupied cells over all pieces.
TotalTiles(ps) == TilesUpTo(ps, Len(ps))

\* The tiles of the piece the last update call spawned and kept.
SpawnedTiles == IF last.shouldSpawn /\ last.result THEN Cardinality(pieces[activePiece].tileGrid) ELSE 0

\* C19: over an update call that settles the active piece, the pieces that
\* were in the collection lose exactly NUM_COLS cells per row by which
\* rowsCompleted grows; over any other update call the total number of
\* occupied cells is unchanged; rowsCompleted never decreases.
C19_CellConservation ==
    [][/\ rowsCompleted' >= rowsCompleted
       /\ TotalTiles(pieces) - (TotalTiles(pieces') - SpawnedTiles')
              = NUM_COLS * (rowsCompleted' - rowsCompleted)
       /\ ~(last'.direction = "DOWN" /\ DownRejected) =>
              TotalTiles(pieces') = TotalTiles(pieces)]_vars

\* An update call settled the active piece and two rows have been completed.
C19_TwoRowsCompleted ==
    /\ nUpdates > 0
    /\ last.shouldSpawn /\ last.result
    /\ rowsCompleted = 2

\* The capacity Board::Board reserves for the collection.
Capacity == NUM_ROWS * NUM_COLS

\* A cell of b's pieceGrid references the piece at address i.
Referenced(b, i) == \E cell \in Cells : b.pieceGrid[cell] = i

\* C20: the collection never holds more than NUM_ROWS * NUM_COLS pieces, the
\* moment after a spawn's emplace_back included: every piece but an active
\* piece not yet placed is referenced by a grid cell of its own, and at the
\* emplace_back of a settling update some cell of row 0 references no piece,
\* so fewer than NUM_ROWS * NUM_COLS pieces precede the new one.
C20_WithinCapacity ==
    /\ Len(pieces) <= Capacity
    /\ \A i \in 1 .. Len(pieces) : i # activePiece => Referenced(board, i)
    /\ (~GameOver /\ DownRejected) =>
           LET c == CollapseFullRows(board)
           IN  /\ Len(c.pieces) + 1 <= Capacity
               /\ \A i \in 1 .. Len(c.pieces) : Referenced(c, i)
               /\ \E cell \in RowCells(0) : c.pieceGrid[cell] = 0

\* A spawn appended a piece to a collection of at least four and kept it.
C20_SpawnedOntoFour ==
    /\ last.shouldSpawn /\ last.result
    /\ Len(pieces) > last.len
    /\ Len(pieces) >= 5

=============================================================================
